---------------------------- MODULE Spec2Model ----------------------------
(***************************************************************************)
(* DropLater: notes scheduled for delivery to a webhook.                   *)
(*                                                                         *)
(* The model covers the API handlers that create and replay notes          *)
(* (src/api/routes/notes.js), the BullMQ worker that delivers them and     *)
(* the polling sweep (src/worker/index.js).  The note store is MongoDB     *)
(* through Mongoose: a save() of a loaded document is one atomic update    *)
(* that $push-es the attempts pushed on the document and $set-s only the   *)
(* paths whose value differs from the loaded one; it checks no version.    *)
(* The queue is BullMQ: a job is delayed, waiting or active; a job whose   *)
(* processor throws is retried while attemptsMade + 1 < opts.attempts.     *)
(***************************************************************************)
EXTENDS Integers, Sequences, FiniteSets, Bags, TLC

\* ------------------------------------------------------------------ bounds
MaxTime == 1
MaxJobs == 2
MaxPosts == 4
MaxReplays == 1
MaxSinkRequests == 2
PoolSize == 6
MaxPollErrors == 1

\* ------------------------------------------------------- program constants
MaxAttempts == 3
Concurrency == 5
BatchLimit == 100
Null == -1

\* The ids of the notes followed.  Notes share nothing but the queue and the
\* worker's slots, and every property below is about one note.
NoteIds == {"a1"}
Times == 0..MaxTime

\* A note's id as text is note._id.toString(): lower-case hex.  The replay
\* route's pattern /^[0-9a-fA-F]{24}$/ also admits the upper-case spelling,
\* and findById casts either spelling to the same ObjectId.
UpperCase(id) == CASE id = "a1" -> "A1" [] OTHER -> id
IdTexts == NoteIds \cup {UpperCase(n) : n \in NoteIds}
ObjectId(text) ==
    IF text \in IdTexts THEN CHOOSE n \in NoteIds : text \in {n, UpperCase(n)}
    ELSE "none"

\* The ids replay requests are made with: also the id of no note ("b2") and a
\* text that is no id ("zz").
RequestIds == IdTexts \cup {"b2", "zz"}

\* NoResponse stands for a transport failure (timeout, connection refused,
\* DNS): the webhook gave no HTTP status at all.
NoResponse == 0

\* A note's webhookUrl names the endpoint it is delivered to; an endpoint is
\* known by the statuses it may answer with.
Answers(url) ==
    CASE url = "ok" -> {200}
      [] url = "flaky" -> {200, 500}
      [] url = "rejecting" -> {404}
      [] url = "down" -> {NoResponse}
      [] url = "quiet" -> {304}

Urls == {"ok", "flaky", "rejecting", "down"}

VARIABLES
    now,        \* wall clock
    notes,      \* the notes collection: id -> document, for the ids created
    creating,   \* POST /api/notes handlers between note.save() and queue.add()
    replaying,  \* POST /:id/replay handlers past the status checks: bag of [noteId, pc]
    jobs,       \* the 'delivery' queue: bag of jobs (delayed, waiting or active)
    posts,      \* history: outbound POSTs made for a note
    cyclePosts, \* history: outbound POSTs made for a note since its creation or last accepted replay
    replayed,   \* history: accepted replay requests of a note
    replayReply,\* the response to the last answered replay request
    sent,       \* history: the headers of the outbound POSTs made
    keyArgs,    \* two argument pairs handed to generateIdempotencyKey
    keys,       \* the two tokens it returned for them
    sink,       \* the sink service: its Redis keys, handlers and history
    request,    \* the API request at the front door
    worker      \* the worker process: its poll timer, its close, its exit

\* The state of the parts that are followed on their own.
apart == <<keyArgs, keys, sink, request, worker>>

vars == <<now, notes, creating, replaying, jobs, posts, cyclePosts, replayed,
          replayReply, sent, apart>>

\* ------------------------------------------------------------------ helpers
Max(a, b) == IF a >= b THEN a ELSE b

Created == DOMAIN notes

\* new Note({... status: 'pending', attempts: []}); deliveredAt defaults to null
NewNote(r, url) ==
    [status |-> "pending", attempts |-> <<>>, deliveredAt |-> Null, releaseAt |-> r,
     webhookUrl |-> url]

\* The options every queue.add() of the code passes: a job starts with
\* attemptsMade = 0, and is delayed until runAt.
NewJob(n, runAt) ==
    [noteId |-> n, attemptsMade |-> 0, pc |-> "queued", runAt |-> runAt,
     loaded |-> "none", error |-> "none", dataId |-> n]

Active(j) == j.pc # "queued"

NumActive == BagCardinality([j \in {x \in BagToSet(jobs) : Active(x)} |-> jobs[j]])

JobsOf(n) == {j \in BagToSet(jobs) : j.noteId = n}

\* One job leaves the bag and another one takes its place.
Replace(j, k) == (jobs (-) SetToBag({j})) (+) SetToBag({k})
Remove(j) == jobs (-) SetToBag({j})

\* Mongoose save(): $set status only when it differs from the value loaded.
SaveStatus(loaded, new, stored) == IF new = loaded THEN stored ELSE new

\* The sink before its first request; SINK_SIMULATE_FAILURE is not set.
SinkKeys == {"k1", "k2"}
SinkStart(fail) ==
    [shouldFail |-> fail, simulateFailure |-> fail, reported |-> "none",
     store |-> {}, handlers |-> {},
     received |-> [k \in SinkKeys |-> 0], processed |-> [k \in SinkKeys |-> 0],
     last |-> [key |-> "none", status |-> 0, duplicate |-> FALSE]]

\* No request has come to the API.
Idle(adminToken) ==
    [route |-> "none", stage |-> "none", authorization |-> << >>, body |-> << >>,
     id |-> "none", status |-> 0, adminToken |-> adminToken]

\* The API process between requests, started with ADMIN_TOKEN=s.
NoRequest == Idle(<<"s">>)

\* The worker process after start-up: setInterval(pollForDueNotes, 5000) is
\* set, the Worker takes jobs, the connections are open.  History: atSigint,
\* the attempts in flight when SIGINT came, and records, the Attempt records
\* stored by then; pollErrors, the sweeps that ended in their catch block.
Started ==
    [polling |-> TRUE, closing |-> FALSE, exited |-> FALSE, atSigint |-> 0, records |-> 0,
     pollErrors |-> 0]

\* No replay request was answered yet.
NoReply == [id |-> "none", status |-> 0, error |-> "none"]

Init ==
    /\ now = 0
    /\ notes = << >>
    /\ creating = {}
    /\ replaying = EmptyBag
    /\ jobs = EmptyBag
    /\ posts = [n \in NoteIds |-> 0]
    /\ cyclePosts = [n \in NoteIds |-> 0]
    /\ replayed = [n \in NoteIds |-> 0]
    /\ replayReply = NoReply
    /\ sent = {}
    /\ keyArgs = << >>
    /\ keys = << >>
    /\ sink = SinkStart(FALSE)
    /\ request = NoRequest
    /\ worker = Started

Tick ==
    /\ now < MaxTime
    /\ now' = now + 1
    /\ UNCHANGED <<notes, creating, replaying, jobs, posts, cyclePosts, replayed, replayReply, sent, apart>>


\* ------------------------------------------------- POST /api/notes (create)
\* The handler up to `await note.save()`: the note is persisted as pending.
CreateNoteSave(n, r, url) ==
    /\ n \notin Created
    /\ notes' = notes @@ (n :> NewNote(r, url))
    /\ creating' = creating \cup {n}
    /\ UNCHANGED <<now, replaying, jobs, posts, cyclePosts, replayed, replayReply, sent, apart>>

\* Mutant of DelayMs: the job is added with no delay.
DelayMsDropped(releaseAt, t) == 0

\* delayMs = Math.max(0, releaseTime.diff(now))
DelayMs(releaseAt, t) == Max(0, releaseAt - t)

\* deliveryQueue.add('deliver-note', {noteId}, {delay: delayMs, attempts: 3, ...}):
\* the job becomes ready delayMs after it was added.
CreateNoteEnqueue(n) ==
    /\ n \in creating
    /\ BagCardinality(jobs) < MaxJobs
    /\ jobs' = jobs (+) SetToBag({NewJob(n, now + DelayMs(notes[n].releaseAt, now))})
    /\ creating' = creating \ {n}
    /\ UNCHANGED <<now, notes, replaying, posts, cyclePosts, replayed, replayReply, sent, apart>>

\* initQueue() or queue.add() rejects (Redis unreachable): the handler answers
\* 500 and the note stays in the store without a job.  The seed script leaves
\* pending notes in the same situation (insertMany, no job).
CreateNoteEnqueueFails(n) ==
    /\ n \in creating
    /\ creating' = creating \ {n}
    /\ UNCHANGED <<now, notes, replaying, jobs, posts, cyclePosts, replayed, replayReply, sent, apart>>

\* --------------------------------------------------------- pollForDueNotes
\* Mutant of DueNotes: the query compares releaseAt with $gte.
DueNotesGte == {n \in Created : notes[n].status = "pending" /\ notes[n].releaseAt >= now}

\* Note.find({status: 'pending', releaseAt: {$lte: now}}).limit(100)
DueNotes == {n \in Created : notes[n].status = "pending" /\ notes[n].releaseAt <= now}

\* One job per due note, added with no jobId and no delay (queue.addBulk).
PollJobs(due) == [j \in {NewJob(n, 0) : n \in due} |-> 1]

\* .limit(100): a sweep takes all due notes, or 100 of them.
Batches ==
    {b \in SUBSET DueNotes :
        Cardinality(b) = IF Cardinality(DueNotes) <= BatchLimit
                         THEN Cardinality(DueNotes) ELSE BatchLimit}

\* A sweep that finds nothing due adds nothing.
pollForDueNotes ==
    /\ \E batch \in Batches :
           /\ batch # {}
           /\ BagCardinality(jobs) + Cardinality(batch) <= MaxJobs
           /\ jobs' = jobs (+) PollJobs(batch)
    /\ UNCHANGED <<now, notes, creating, replaying, posts, cyclePosts, replayed, replayReply, sent, apart>>

\* ---------------------------------------------------- generateIdempotencyKey
\* Strings are sequences of characters.  The texts of the note ids:
Chars(text) ==
    CASE text = "a1" -> <<"a", "1">>
      [] text = "A1" -> <<"A", "1">>
      [] text = "b2" -> <<"b", "2">>
      [] text = "zz" -> <<"z", "z">>
      [] OTHER -> << >>

\* Date.prototype.toISOString(): one fixed-width text per instant, with colons.
toISOString(t) == <<"0", "0", ":", "0">> \o <<ToString(t)>> \o <<"Z">>

\* crypto.createHash('sha256').update(data).digest('hex'): a token that stands
\* for the digest of data; different data have different digests (SHA-256 is
\* taken as collision free).
Sha256Hex(data) == <<"sha256">> \o data

\* Mutant of generateIdempotencyKey: the two parts are joined with no colon.
KeyNoSeparator(noteId, releaseAt) == Sha256Hex(noteId \o releaseAt)

\* const data = `${noteId}:${releaseAt}`
generateIdempotencyKey(noteId, releaseAt) == Sha256Hex(noteId \o <<":">> \o releaseAt)

\* headers: {'X-Note-Id': noteId, 'X-Idempotency-Key': idempotencyKey}, where
\* noteId is job.data.noteId and the key is derived from it and from
\* note.releaseAt.toISOString().
Headers(noteId, releaseAt) ==
    [XNoteId |-> noteId,
     XIdempotencyKey |-> generateIdempotencyKey(Chars(noteId), toISOString(releaseAt))]

\* --------------------------------------------------------------- deliverNote
\* axios: validateStatus: (status) => status < 500
ValidateStatus(code) == code < 500

\* ok: response.status >= 200 && response.status < 300
IsOk(code) == code >= 200 /\ code < 300

\* error: response.status >= 400 ? `HTTP ${response.status}` : undefined
ErrorOf(code) == IF code >= 400 THEN "HTTP " \o ToString(code) ELSE "none"

\* An Attempt record; its `at` timestamp is left out (nothing reads it).
Attempt(code, ok, error) ==
    [statusCode |-> code, ok |-> ok, error |-> error]

\* Mutant of Ready: the worker takes every ready job, however many it runs.
ReadyNoLimit(j) == j.pc = "queued" /\ j.runAt <= now

\* The worker may take a job that is ready while it has a free slot.
Ready(j) == j.pc = "queued" /\ j.runAt <= now /\ NumActive < Concurrency

\* The job finds its note already delivered: it returns and is completed.
SkipDelivered(j) ==
    /\ j \in BagToSet(jobs)
    /\ Ready(j)
    /\ j.noteId \in Created
    /\ notes[j.noteId].status = "delivered"
    /\ jobs' = Remove(j)
    /\ UNCHANGED <<now, notes, creating, replaying, posts, cyclePosts, replayed, replayReply, sent, apart>>

\* Mutant of SkipCheck: the status is not looked at.
SkipCheckNone(status) == TRUE

\* findById, the status check, and the outbound axios.post: the attempt is in
\* flight, holding the document as it was loaded.
SkipCheck(status) == status # "delivered"

StartAttempt(j) ==
    /\ j \in BagToSet(jobs)
    /\ Ready(j)
    /\ j.noteId \in Created
    /\ SkipCheck(notes[j.noteId].status)
    /\ posts[j.noteId] < MaxPosts
    /\ jobs' = Replace(j, [j EXCEPT !.pc = "posted", !.runAt = 0,
                                    !.loaded = notes[j.noteId].status])
    /\ posts' = [posts EXCEPT ![j.noteId] = @ + 1]
    /\ cyclePosts' = [cyclePosts EXCEPT ![j.noteId] = @ + 1]
    /\ sent' = sent \cup {Headers(j.dataId, notes[j.noteId].releaseAt)}
    /\ UNCHANGED <<now, notes, creating, replaying, replayed, replayReply, apart>>

\* Mutant of Delivered: the save writes the attempts of the document as a
\* whole array that holds the new attempt only.
DeliveredReplacing(n, j, code) ==
    [notes[n] EXCEPT !.attempts = <<Attempt(code, TRUE, ErrorOf(code))>>,
                     !.status = SaveStatus(j.loaded, "delivered", @),
                     !.deliveredAt = now]

\* A response that axios does not throw on: the attempt is pushed on the loaded
\* document and saved.  2xx: delivered, the job completes.
Delivered(n, j, code) ==
    [notes[n] EXCEPT !.attempts = Append(@, Attempt(code, TRUE, ErrorOf(code))),
                     !.status = SaveStatus(j.loaded, "delivered", @),
                     !.deliveredAt = now]

RespondOk(j, code) ==
    /\ j \in BagToSet(jobs)
    /\ j.pc = "posted"
    /\ code \in Answers(notes[j.noteId].webhookUrl)
    /\ code # NoResponse /\ ValidateStatus(code) /\ IsOk(code)
    /\ notes' = [notes EXCEPT ![j.noteId] = Delivered(j.noteId, j, code)]
    /\ jobs' = Remove(j)
    /\ UNCHANGED <<now, creating, replaying, posts, cyclePosts, replayed, replayReply, sent, apart>>

\* response.statusText
StatusText(code) ==
    CASE code = 404 -> "Not Found"
      [] code = 304 -> "Not Modified"
      [] OTHER -> "Unknown"

\* Not 2xx and below 500: the attempt is saved with status 'failed', then the
\* handler throws `HTTP <status>: <statusText>` into its own catch block.
HttpFailed(n, j, code) ==
    [notes[n] EXCEPT !.attempts = Append(@, Attempt(code, FALSE, ErrorOf(code))),
                     !.status = SaveStatus(j.loaded, "failed", @)]

RespondHttpError(j, code) ==
    /\ j \in BagToSet(jobs)
    /\ j.pc = "posted"
    /\ code \in Answers(notes[j.noteId].webhookUrl)
    /\ code # NoResponse /\ ValidateStatus(code) /\ ~IsOk(code)
    /\ notes' = [notes EXCEPT ![j.noteId] = HttpFailed(j.noteId, j, code)]
    /\ jobs' = Replace(j, [j EXCEPT !.pc = "catch", !.loaded = "none",
                                    !.error = "HTTP " \o ToString(code) \o ": " \o StatusText(code)])
    /\ UNCHANGED <<now, creating, replaying, posts, cyclePosts, replayed, replayReply, sent, apart>>

\* The catch block's `await Note.findById(noteId)`: a fresh document.
CatchRead(j) ==
    /\ j \in BagToSet(jobs)
    /\ j.pc = "catch"
    /\ jobs' = Replace(j, [j EXCEPT !.pc = "record", !.loaded = notes[j.noteId].status])
    /\ UNCHANGED <<now, notes, creating, replaying, posts, cyclePosts, replayed, replayReply, sent, apart>>

\* axios throws: a status >= 500 ("Request failed with status code 500") or no
\* response at all.  Control is in the catch block, which loads the note.
ThrownMessage(r) ==
    IF r = NoResponse THEN "timeout of 30000ms exceeded"
    ELSE "Request failed with status code " \o ToString(r)

RespondThrows(j, r) ==
    /\ j \in BagToSet(jobs)
    /\ j.pc = "posted"
    /\ r \in Answers(notes[j.noteId].webhookUrl)
    /\ r = NoResponse \/ ~ValidateStatus(r)
    /\ jobs' = Replace(j, [j EXCEPT !.pc = "record", !.loaded = notes[j.noteId].status,
                                    !.error = ThrownMessage(r)])
    /\ UNCHANGED <<now, notes, creating, replaying, posts, cyclePosts, replayed, replayReply, sent, apart>>

\* if (job.attemptsMade + 1 >= 3) note.status = 'dead' else note.status = 'failed'
FailureStatus(attemptsMade) == IF attemptsMade + 1 >= MaxAttempts THEN "dead" ELSE "failed"

\* Mutant of Recorded: the failure status is saved, the attempt is not pushed.
RecordedNoPush(n, j) ==
    [notes[n] EXCEPT !.status = SaveStatus(j.loaded, FailureStatus(j.attemptsMade), @)]

Recorded(n, j) ==
    [notes[n] EXCEPT !.attempts = Append(@, Attempt(0, FALSE, j.error)),
                     !.status = SaveStatus(j.loaded, FailureStatus(j.attemptsMade), @)]

\* backoff: {type: 'exponential', settings: {delay: 1000}}, the option every
\* queue.add() and addBulk() of the code passes.  BullMQ reads backoff.type and
\* backoff.delay; the code sets no backoff.delay (Null).
BackoffOpts == [type |-> "exponential", delay |-> Null, settings |-> [delay |-> 1000]]

\* BullMQ's exponential strategy, Math.round(2 ^ (attemptsMade - 1) * delay),
\* in ms.  With delay undefined the product is NaN, which BullMQ takes as "no
\* delay": the job goes back to the waiting list at once.
BackoffDelay(backoff, attemptsMade) ==
    IF backoff.delay = Null THEN 0 ELSE (2 ^ (attemptsMade - 1)) * backoff.delay

\* When a retry may run: 0 stands for "at once".
RetryAt(attemptsMade) ==
    IF BackoffDelay(BackoffOpts, attemptsMade) = 0 THEN 0
    ELSE now + BackoffDelay(BackoffOpts, attemptsMade)

\* BullMQ, on the processor's throw: the job is retried while
\* attemptsMade + 1 < opts.attempts (3), and fails for good otherwise.
AfterThrow(j) ==
    IF j.attemptsMade + 1 < MaxAttempts
    THEN Replace(j, [NewJob(j.noteId, RetryAt(j.attemptsMade + 1))
                        EXCEPT !.attemptsMade = j.attemptsMade + 1,
                                                !.dataId = j.dataId])
    ELSE Remove(j)

\* The catch block's push of a statusCode-0 attempt, its save, and the re-throw.
CatchRecord(j) ==
    /\ j \in BagToSet(jobs)
    /\ j.pc = "record"
    /\ notes' = [notes EXCEPT ![j.noteId] = Recorded(j.noteId, j)]
    /\ jobs' = AfterThrow(j)
    /\ UNCHANGED <<now, creating, replaying, posts, cyclePosts, replayed, replayReply, sent, apart>>

\* The catch block's findById or save rejects (the store is unreachable): the
\* inner catch logs it, the error is thrown on and BullMQ retries as before.
CatchRecordFails(j) ==
    /\ j \in BagToSet(jobs)
    /\ j.pc = "record"
    /\ jobs' = AfterThrow(j)
    /\ UNCHANGED <<now, notes, creating, replaying, posts, cyclePosts, replayed, replayReply,
                   sent, apart>>

\* ------------------------------------------- POST /api/notes/:id/replay
HexDigits ==
    {"0", "1", "2", "3", "4", "5", "6", "7", "8", "9",
     "a", "b", "c", "d", "e", "f", "A", "B", "C", "D", "E", "F"}

\* Mutant of WellFormedId: the format of the id is not checked.
WellFormedAny(text) == TRUE

\* /^[0-9a-fA-F]{24}$/.test(noteId); every text tried has the length of an id.
WellFormedId(text) == \A i \in 1..Len(Chars(text)) : Chars(text)[i] \in HexDigits

\* res.status(400).json({error: 'Invalid note ID format', ...})
ReplayInvalidId(id) ==
    /\ ~WellFormedId(id)
    /\ replayReply' = [id |-> id, status |-> 400, error |-> "Invalid note ID format"]
    /\ UNCHANGED <<now, notes, creating, replaying, jobs, posts, cyclePosts, replayed,
                   sent, apart>>

\* findById returns null: res.status(404).json({error: 'Note not found', ...})
ReplayNotFound(id) ==
    /\ WellFormedId(id)
    /\ ObjectId(id) \notin Created
    /\ replayReply' = [id |-> id, status |-> 404, error |-> "Note not found"]
    /\ UNCHANGED <<now, notes, creating, replaying, jobs, posts, cyclePosts, replayed,
                   sent, apart>>

\* Mutant of Replayable: the check for a pending note is missing.
ReplayableUnlessDelivered(status) == status # "delivered"

\* findById and the two status checks; a delivered or pending note is refused.
Replayable(status) == status # "delivered" /\ status # "pending"

\* The handler past its checks; id is req.params.id, the text in the URL.
ReplayRead(id) ==
    LET n == ObjectId(id) IN
    /\ WellFormedId(id)
    /\ n \in Created
    /\ Replayable(notes[n].status)
    /\ replayed[n] < MaxReplays
    /\ replaying' = replaying (+) SetToBag({[noteId |-> n, id |-> id, pc |-> "save",
                                             loaded |-> notes[n].status]})
    /\ replayed' = [replayed EXCEPT ![n] = @ + 1]
    /\ UNCHANGED <<now, notes, creating, jobs, posts, cyclePosts, replayReply, sent, apart>>

\* res.status(400).json({error: 'Cannot replay delivered note', ...}), or the
\* same for a pending note: the handler returns at the check.
RejectedReply(id, status) ==
    [id |-> id, status |-> 400, error |-> "Cannot replay " \o status \o " note"]

ReplayRejected(id) ==
    LET n == ObjectId(id) IN
    /\ WellFormedId(id)
    /\ n \in Created
    /\ ~Replayable(notes[n].status)
    /\ replayReply' = RejectedReply(id, notes[n].status)
    /\ UNCHANGED <<now, notes, creating, replaying, jobs, posts, cyclePosts, replayed,
                   sent, apart>>

\* Mutant of ReplaySave: the replay starts the note afresh.
ReplaySaveResets(q) ==
    /\ q \in BagToSet(replaying)
    /\ q.pc = "save"
    /\ notes' = [notes EXCEPT ![q.noteId].status = SaveStatus(q.loaded, "pending", @),
                              ![q.noteId].attempts = << >>,
                              ![q.noteId].deliveredAt = Null]
    /\ replaying' = (replaying (-) SetToBag({q}))
                      (+) SetToBag({[q EXCEPT !.pc = "enqueue", !.loaded = "none"]})
    /\ cyclePosts' = [cyclePosts EXCEPT ![q.noteId] = 0]
    /\ UNCHANGED <<now, creating, jobs, posts, replayed, replayReply, sent, apart>>

\* note.status = 'pending'; await note.save()
ReplaySave(q) ==
    /\ q \in BagToSet(replaying)
    /\ q.pc = "save"
    /\ notes' = [notes EXCEPT ![q.noteId].status = SaveStatus(q.loaded, "pending", @)]
    /\ replaying' = (replaying (-) SetToBag({q}))
                      (+) SetToBag({[q EXCEPT !.pc = "enqueue", !.loaded = "none"]})
    /\ cyclePosts' = [cyclePosts EXCEPT ![q.noteId] = 0]
    /\ UNCHANGED <<now, creating, jobs, posts, replayed, replayReply, sent, apart>>

\* deliveryQueue.add('deliver-note', {noteId}, {attempts: 3, ...}): no delay,
\* the job's data is the id as the request spelled it; then
\* res.json({message: 'Note queued for replay', id: noteId})
ReplayEnqueue(q) ==
    /\ q \in BagToSet(replaying)
    /\ q.pc = "enqueue"
    /\ BagCardinality(jobs) < MaxJobs
    /\ jobs' = jobs (+) SetToBag({[NewJob(q.noteId, 0) EXCEPT !.dataId = q.id]})
    /\ replaying' = replaying (-) SetToBag({q})
    /\ replayReply' = [id |-> q.id, status |-> 200, error |-> "none"]
    /\ UNCHANGED <<now, notes, creating, posts, cyclePosts, replayed, sent, apart>>

\* ---------------------------------------------------------------- the system
Responses == UNION {Answers(u) : u \in Urls}

AllJobs == BagToSet(jobs)

Next ==
    \/ Tick
    \/ \E n \in NoteIds, r \in Times, u \in Urls : CreateNoteSave(n, r, u)
    \/ \E n \in NoteIds : CreateNoteEnqueue(n)
    \/ \E n \in NoteIds : CreateNoteEnqueueFails(n)
    \/ pollForDueNotes
    \/ \E j \in AllJobs : SkipDelivered(j)
    \/ \E j \in AllJobs : StartAttempt(j)
    \/ \E j \in AllJobs, c \in Responses : RespondOk(j, c)
    \/ \E j \in AllJobs, c \in Responses : RespondHttpError(j, c)
    \/ \E j \in AllJobs, r \in Responses : RespondThrows(j, r)
    \/ \E j \in AllJobs : CatchRead(j)
    \/ \E j \in AllJobs : CatchRecord(j)
    \/ \E n \in NoteIds : ReplayRead(n)
    \/ \E q \in BagToSet(replaying) : ReplaySave(q)
    \/ \E q \in BagToSet(replaying) : ReplayEnqueue(q)

Spec == Init /\ [][Next]_vars


\* ==================================================================== claims
\* Jobs of note n (with multiplicity) whose attempt is in flight: the status
\* was read and the POST sent, the result is not yet written.
InFlight(n) ==
    BagCardinality([j \in {x \in JobsOf(n) : x.pc = "posted"} |-> jobs[j]])

HasJob(n) == JobsOf(n) # {}

\* C1: for every note, at most one delivery attempt is in flight at any time.
C1_AtMostOneInFlight == \A n \in NoteIds : InFlight(n) <= 1

\* C2: a due note whose endpoint always answers 2xx gets exactly one outbound
\* POST, however often it was discovered.
C2_OnePostWhenOk ==
    \A n \in Created : notes[n].webhookUrl = "ok" => posts[n] <= 1

\* C3: deliveredAt is set if and only if status is delivered.
C3_DeliveredAtIffDelivered ==
    \A n \in Created : (notes[n].deliveredAt # Null) <=> (notes[n].status = "delivered")

\* C4: once a note is delivered, no Attempt record is appended to it again.
C4_NoAttemptAfterDelivered ==
    [][\A n \in Created :
          notes[n].status = "delivered" => notes'[n].attempts = notes[n].attempts]_vars

\* C5: delivered is terminal: a delivered note never changes status.
C5_DeliveredIsTerminal ==
    [][\A n \in Created :
          notes[n].status = "delivered" => notes'[n].status = "delivered"]_vars

\* C6: within one delivery cycle (since creation or the last accepted replay)
\* at most 3 outbound attempts are made for a note.
C6_AtMostThreePerCycle == \A n \in NoteIds : cyclePosts[n] <= MaxAttempts

\* Nothing is left to run for note n: its create handler is done and the queue
\* holds no job for it.
Settled(n) == n \notin creating /\ ~HasJob(n)

AlwaysFails(url) == \A c \in Answers(url) : c = NoResponse \/ ~IsOk(c)

AllFailed(n) == \A i \in 1..Len(notes[n].attempts) : ~notes[n].attempts[i].ok

\* C7: a freshly created due note whose endpoint fails every request ends dead
\* with exactly 3 Attempt records, all with ok = FALSE.
C7_DeadWithThreeAttempts ==
    \A n \in Created :
        (/\ AlwaysFails(notes[n].webhookUrl)
         /\ replayed[n] = 0
         /\ posts[n] > 0
         /\ Settled(n))
        => /\ notes[n].status = "dead"
           /\ Len(notes[n].attempts) = MaxAttempts
           /\ AllFailed(n)

\* The recorded attempts of note n begin with one or two failures, directly
\* followed by a success.
FailedThenOk(n) ==
    \E i \in 2..MaxAttempts :
        /\ i <= Len(notes[n].attempts)
        /\ notes[n].attempts[i].ok
        /\ \A k \in 1..(i - 1) : ~notes[n].attempts[k].ok

\* C8: a note whose first attempt, or first two, fail and whose next attempt
\* gets a 2xx is delivered, and stays delivered.
C8_DeliveredAfterRetry ==
    \A n \in Created : FailedThenOk(n) => notes[n].status = "delivered"

\* C9: no outbound attempt for a note is made before the note's releaseAt.
C9_NeverBeforeReleaseAt ==
    [][\A n \in Created : posts'[n] > posts[n] => now >= notes[n].releaseAt]_vars

\* A note released after the system started has been attempted.
C9_Witness == \E n \in Created : notes[n].releaseAt > 0 /\ posts[n] > 0

\* ------------------------------------------------------------- scheduling
\* What the runtime guarantees: time passes; a request handler runs to its
\* end; setInterval fires the sweep every 5 s; the worker takes ready jobs; an
\* outbound POST is answered or times out (30 s), whatever the answer is; the
\* catch block runs to its re-throw.
Responds(j) ==
    \E c \in Responses : RespondOk(j, c) \/ RespondHttpError(j, c) \/ RespondThrows(j, c)

\* The system left to itself: no replay request arrives.
Unattended ==
    \/ Tick
    \/ \E n \in NoteIds, r \in Times, u \in Urls : CreateNoteSave(n, r, u)
    \/ \E n \in NoteIds : CreateNoteEnqueue(n)
    \/ \E n \in NoteIds : CreateNoteEnqueueFails(n)
    \/ pollForDueNotes
    \/ \E j \in AllJobs : SkipDelivered(j)
    \/ \E j \in AllJobs : StartAttempt(j)
    \/ \E j \in AllJobs : Responds(j)
    \/ \E j \in AllJobs : CatchRead(j)
    \/ \E j \in AllJobs : CatchRecord(j)

Fairness ==
    /\ WF_vars(Tick)
    /\ WF_vars(\E n \in NoteIds : CreateNoteEnqueue(n) \/ CreateNoteEnqueueFails(n))
    /\ WF_vars(pollForDueNotes)
    /\ WF_vars(\E j \in AllJobs : SkipDelivered(j))
    /\ WF_vars(\E j \in AllJobs : StartAttempt(j))
    /\ WF_vars(\E j \in AllJobs : Responds(j))
    /\ WF_vars(\E j \in AllJobs : CatchRead(j))
    /\ WF_vars(\E j \in AllJobs : CatchRecord(j))

LiveSpec == Init /\ [][Unattended]_vars /\ Fairness

\* Note n is due (pending, releaseAt reached) and no attempt was made for it
\* since it was created or last replayed.
DueUnattempted(n) ==
    /\ n \in Created
    /\ notes[n].status = "pending"
    /\ notes[n].releaseAt <= now
    /\ cyclePosts[n] = 0
    /\ posts[n] < MaxPosts

Attempted(n) ==
    n \in Created /\ (cyclePosts[n] > 0 \/ notes[n].status # "pending")

\* C10: under fair scheduling every pending note whose releaseAt has passed is
\* eventually attempted (or has left pending through an attempt already under
\* way), also when no queue job was ever added for it.
C10_DueNoteEventuallyAttempted ==
    \A n \in NoteIds :
        DueUnattempted(n) ~> Attempted(n)

\* A due, never attempted note whose create-time enqueue failed: no handler
\* and no job is left for it.
C10_Witness ==
    \E n \in Created : DueUnattempted(n) /\ posts[n] = 0 /\ Settled(n)

\* ------------------------------------------------- outcomes and transitions
\* C11: a note created with releaseAt already reached, whose endpoint answers
\* 200, ends delivered with deliveredAt set and exactly one Attempt record,
\* with ok = TRUE and statusCode = 200.
C11_OneAttemptWhenOk ==
    \A n \in Created :
        (/\ notes[n].webhookUrl = "ok"
         /\ notes[n].releaseAt = 0
         /\ posts[n] > 0
         /\ Settled(n))
        => /\ notes[n].status = "delivered"
           /\ notes[n].deliveredAt # Null
           /\ Len(notes[n].attempts) = 1
           /\ notes[n].attempts[1].ok
           /\ notes[n].attempts[1].statusCode = 200

\* C15: a note's status becomes pending only from failed or dead (by a replay
\* request); never from delivered, also when the replay races with a delivery.
C15_PendingOnlyFromFailedOrDead ==
    [][\A n \in Created :
          (notes[n].status # "pending" /\ notes'[n].status = "pending")
          => notes[n].status \in {"failed", "dead"}]_vars

\* C16: while a note is dead no outbound attempt is made for it, and its status
\* leaves dead only for pending (an accepted replay), never for failed or
\* delivered.
C16_DeadStaysDead ==
    [][\A n \in Created :
          notes[n].status = "dead"
          => /\ posts'[n] = posts[n]
             /\ notes'[n].status \in {"dead", "pending"}]_vars

\* C17: deliveredAt is written once: after it has been set, no step changes it.
C17_DeliveredAtWrittenOnce ==
    [][\A n \in Created :
          notes[n].deliveredAt # Null
          => notes'[n].deliveredAt = notes[n].deliveredAt]_vars

\* ------------------------------------------------------- replay of a dead note
\* The Attempt records a job leaves after three failed attempts at an endpoint:
\* a thrown request leaves one statusCode-0 record, a 4xx answer leaves its own
\* record and then the catch block's.
DeadAttempts(url) ==
    CASE url = "flaky" ->
           [i \in 1..MaxAttempts |-> Attempt(0, FALSE, ThrownMessage(500))]
      [] url = "down" ->
           [i \in 1..MaxAttempts |-> Attempt(0, FALSE, ThrownMessage(NoResponse))]
      [] url = "rejecting" ->
           [i \in 1..(2 * MaxAttempts) |->
               IF i % 2 = 1 THEN Attempt(404, FALSE, ErrorOf(404))
               ELSE Attempt(0, FALSE, "HTTP 404: Not Found")]

DeadNote(url) ==
    [NewNote(0, url) EXCEPT !.status = "dead", !.attempts = DeadAttempts(url)]

\* The system some time after a note's only job has run out of attempts: the
\* note is dead, nothing is queued.  posts counts the POSTs made from here on.
DeadInit ==
    /\ now = 0
    /\ \E n \in NoteIds, url \in {"flaky", "down", "rejecting"} :
           notes = (n :> DeadNote(url))
    /\ creating = {}
    /\ replaying = EmptyBag
    /\ jobs = EmptyBag
    /\ posts = [n \in NoteIds |-> 0]
    /\ cyclePosts = [n \in NoteIds |-> MaxAttempts]
    /\ replayed = [n \in NoteIds |-> 0]
    /\ replayReply = NoReply
    /\ sent = {}
    /\ keyArgs = << >>
    /\ keys = << >>
    /\ sink = SinkStart(FALSE)
    /\ request = NoRequest
    /\ worker = Started

\* No note is created: replay requests, the sweep and the worker.
ReplayNext ==
    \/ Tick
    \/ pollForDueNotes
    \/ \E j \in AllJobs : SkipDelivered(j)
    \/ \E j \in AllJobs : StartAttempt(j)
    \/ \E j \in AllJobs, c \in Responses : RespondOk(j, c)
    \/ \E j \in AllJobs, c \in Responses : RespondHttpError(j, c)
    \/ \E j \in AllJobs, r \in Responses : RespondThrows(j, r)
    \/ \E j \in AllJobs : CatchRead(j)
    \/ \E j \in AllJobs : CatchRecord(j)
    \/ \E n \in NoteIds : ReplayRead(n)
    \/ \E q \in BagToSet(replaying) : ReplaySave(q)
    \/ \E q \in BagToSet(replaying) : ReplayEnqueue(q)

ReplaySpec == DeadInit /\ [][ReplayNext]_vars

\* The Attempt records appended to note n since it was dead.
NewAttempts(n) ==
    SubSeq(notes[n].attempts, Len(DeadAttempts(notes[n].webhookUrl)) + 1,
           Len(notes[n].attempts))

\* C12: one replay of a dead note sets it pending and, when the attempt it
\* leads to succeeds, makes exactly one new attempt: one outbound POST, one new
\* Attempt record.
C12_ReplayOfDeadOneAttempt ==
    \A n \in Created :
        (/\ replayed[n] = 1
         /\ replaying = EmptyBag
         /\ Settled(n)
         /\ posts[n] > 0
         /\ \A i \in 1..Len(NewAttempts(n)) : NewAttempts(n)[i].ok)
        => /\ posts[n] = 1
           /\ Len(NewAttempts(n)) = 1
           /\ notes[n].status = "delivered"

\* ------------------------------------------------------- the API's answers
\* Endpoints of the notes that replay requests are made for: one that accepts
\* and one that never answers.
ApiUrls == {"ok", "down"}

\* Their notes are due when they are created.
ApiTimes == {0}

\* The system within one instant of the clock (no delay is pending: every note
\* is due when it is created), with replay requests for any id, spelled either
\* way, and for a note in any state.
ApiNext ==
    \/ \E n \in NoteIds, r \in ApiTimes, u \in ApiUrls : CreateNoteSave(n, r, u)
    \/ \E n \in NoteIds : CreateNoteEnqueue(n)
    \/ \E n \in NoteIds : CreateNoteEnqueueFails(n)
    \/ pollForDueNotes
    \/ \E j \in AllJobs : SkipDelivered(j)
    \/ \E j \in AllJobs : StartAttempt(j)
    \/ \E j \in AllJobs, c \in Responses : RespondOk(j, c)
    \/ \E j \in AllJobs, r \in Responses : RespondThrows(j, r)
    \/ \E j \in AllJobs : CatchRecord(j)
    \/ \E id \in RequestIds : ReplayInvalidId(id)
    \/ \E id \in RequestIds : ReplayNotFound(id)
    \/ \E id \in RequestIds : ReplayRead(id)
    \/ \E id \in RequestIds : ReplayRejected(id)
    \/ \E q \in BagToSet(replaying) : ReplaySave(q)
    \/ \E q \in BagToSet(replaying) : ReplayEnqueue(q)

ApiSpec == Init /\ [][ApiNext]_vars

\* C13: a replay request on a delivered or pending note is not accepted; the
\* error it is answered with is a 400 naming the note's status, and the step
\* that answers it leaves the queue, the handlers in progress and every note
\* (status, attempts, deliveredAt) as they were.
C13_ReplayRejected ==
    [][\A n \in Created :
          notes[n].status \in {"delivered", "pending"}
          => /\ replayed'[n] = replayed[n]
             /\ (/\ replayReply' # replayReply
                 /\ replayReply'.status # 200
                 /\ ObjectId(replayReply'.id) = n)
                => /\ replayReply'.status = 400
                   /\ replayReply'.error = "Cannot replay " \o notes[n].status \o " note"
                   /\ UNCHANGED <<notes, jobs, replaying, creating, posts, sent>>]_vars

\* Replay requests on a delivered note were answered.
C13_Witness ==
    /\ replayReply.error = "Cannot replay delivered note"
    /\ \E n \in Created : notes[n].status = "delivered" /\ Len(notes[n].attempts) = 1

\* The headers the POSTs of note n are meant to carry: its id as stored, and
\* the key of that id and its releaseAt.
NoteHeaders(n) == Headers(n, notes[n].releaseAt)

\* C20: every outbound request made for a note carries X-Note-Id equal to the
\* note's id and X-Idempotency-Key equal to the key derived from that id and
\* the note's releaseAt: the same on the first attempt, on every retry and on
\* every attempt a replay leads to.
C20_SameHeadersOnEveryAttempt ==
    \A h \in sent : \E n \in Created : h = NoteHeaders(n)

\* --------------------------------------------- generateIdempotencyKey alone
\* The function is handed any two strings.  Texts to try: empty, without and
\* with a colon, and such that one is the end or the beginning of another.
KeyNoteIds == {<< >>, <<"a">>, <<"a", "0">>, <<"a", ":", "0">>}
KeyReleaseAts == {<< >>, <<"Z">>, <<"0", "Z">>, <<"0", ":", "0", "Z">>}
KeyPairs == [noteId : KeyNoteIds, releaseAt : KeyReleaseAts]

KeyInit ==
    /\ now = 0
    /\ notes = << >>
    /\ creating = {}
    /\ replaying = EmptyBag
    /\ jobs = EmptyBag
    /\ posts = [n \in NoteIds |-> 0]
    /\ cyclePosts = [n \in NoteIds |-> 0]
    /\ replayed = [n \in NoteIds |-> 0]
    /\ replayReply = NoReply
    /\ sent = {}
    /\ keyArgs \in KeyPairs \X KeyPairs
    /\ keys = << >>
    /\ sink = SinkStart(FALSE)
    /\ request = NoRequest
    /\ worker = Started

\* Two calls, one per argument pair.
DeriveKeys ==
    /\ keys = << >>
    /\ keys' = <<generateIdempotencyKey(keyArgs[1].noteId, keyArgs[1].releaseAt),
                 generateIdempotencyKey(keyArgs[2].noteId, keyArgs[2].releaseAt)>>
    /\ UNCHANGED <<now, notes, creating, replaying, jobs, posts, cyclePosts, replayed,
                   replayReply, sent, keyArgs, sink, request, worker>>

KeyNext == DeriveKeys

KeySpec == KeyInit /\ [][KeyNext]_vars

HasColon(text) == \E i \in 1..Len(text) : text[i] = ":"

\* C19 as stated: any two argument pairs that differ in a field get different
\* tokens.
C19_DistinctPairsDistinctKeys ==
    (keys # << >> /\ keyArgs[1] # keyArgs[2]) => keys[1] # keys[2]

\* C19, amended: two argument pairs that differ in a field and whose noteIds
\* contain no colon (as no ObjectId does) get different tokens.
C19_DistinctKeysForColonFreeIds ==
    (/\ keys # << >>
     /\ keyArgs[1] # keyArgs[2]
     /\ ~HasColon(keyArgs[1].noteId)
     /\ ~HasColon(keyArgs[2].noteId))
    => keys[1] # keys[2]

\* Tokens were derived for two colon-free ids that differ, with one releaseAt
\* that has a colon.
C19_Witness ==
    /\ keys # << >>
    /\ keyArgs[1].noteId # keyArgs[2].noteId
    /\ ~HasColon(keyArgs[1].noteId) /\ ~HasColon(keyArgs[2].noteId)
    /\ keyArgs[1].releaseAt = keyArgs[2].releaseAt
    /\ HasColon(keyArgs[1].releaseAt)
    /\ keys[1] # keys[2]

\* The text names no stored note: it is no id at all, or the id of no note.
NotAnId(text) == \E i \in 1..Len(Chars(text)) : Chars(text)[i] \notin HexDigits
MatchesNoNote(text) == NotAnId(text) \/ ObjectId(text) \notin Created

\* C14: a replay request whose id is malformed is answered 400 (invalid id),
\* one whose id matches no stored note is answered 404 (not found); the step
\* that answers it adds no job, starts no handler and changes no note.
C14_ReplayOfUnknownId ==
    [][(replayReply' # replayReply /\ MatchesNoNote(replayReply'.id))
       => /\ replayReply'.status = IF NotAnId(replayReply'.id) THEN 400 ELSE 404
          /\ replayReply'.error = IF NotAnId(replayReply'.id)
                                  THEN "Invalid note ID format" ELSE "Note not found"
          /\ UNCHANGED <<notes, jobs, replaying, creating, posts, sent, replayed>>]_vars

\* With a note stored and a job queued, a replay request for another id was
\* answered not found.
C14_Witness ==
    /\ replayReply.status = 404
    /\ replayReply.id = "b2"
    /\ Created # {}
    /\ jobs # EmptyBag

\* ------------------------------------------------------ one call, one record
\* C24: every outbound call leaves exactly one Attempt record, so a note never
\* has more Attempt records than POSTs were made for it; a single 4xx answer
\* leaves one record, not two.
C24_OneRecordPerCall ==
    \A n \in Created : Len(notes[n].attempts) <= posts[n]

\* C25: an Attempt has statusCode 0 only when no HTTP response came (its error
\* is then the transport's); an answered 4xx or 5xx is recorded with its own
\* status, not as an exception.
C25_StatusZeroOnlyWithoutResponse ==
    \A n \in Created : \A i \in 1..Len(notes[n].attempts) :
        notes[n].attempts[i].statusCode = 0
        => notes[n].attempts[i].error = ThrownMessage(NoResponse)

\* C27: a job that starts on a note stored as delivered makes no outbound call,
\* completes (leaves the queue, no retry), and leaves every note as it was.
C27_SkipOnDelivered ==
    [][\A j \in BagToSet(jobs) :
          (/\ j.pc = "queued"
           /\ j.noteId \in Created
           /\ notes[j.noteId].status = "delivered"
           /\ CopiesIn(j, jobs') < CopiesIn(j, jobs))
          => /\ jobs' = Remove(j)
             /\ UNCHANGED <<notes, posts, sent>>]_vars

\* A replay's job and the first job's retry were both queued, one POST was
\* made after the replay and delivered the note, and the queue is empty: the
\* other job found the note delivered.
C27_Witness ==
    \E n \in Created :
        /\ notes[n].status = "delivered"
        /\ replayReply.status = 200
        /\ posts[n] = 2
        /\ Len(notes[n].attempts) = 2
        /\ Settled(n)
        /\ replaying = EmptyBag

\* C28: an accepted replay changes only the note's status, to pending: every
\* step of a replay handler leaves attempts, deliveredAt, releaseAt and
\* webhookUrl of every note as they were, and its save leaves the note pending.
C28_ReplayChangesOnlyStatus ==
    [][replaying' # replaying
       => \A n \in Created :
             /\ notes'[n].attempts = notes[n].attempts
             /\ notes'[n].deliveredAt = notes[n].deliveredAt
             /\ notes'[n].releaseAt = notes[n].releaseAt
             /\ notes'[n].webhookUrl = notes[n].webhookUrl
             /\ notes'[n].status \in {notes[n].status, "pending"}
             /\ (\E q \in BagToSet(replaying) :
                    q.noteId = n /\ q.pc = "save"
                    /\ CopiesIn(q, replaying') < CopiesIn(q, replaying))
                => notes'[n].status = "pending"]_vars

\* A replay has saved: the note is pending again with its failed attempts kept.
C28_Witness ==
    \E q \in BagToSet(replaying) :
        /\ q.pc = "enqueue"
        /\ notes[q.noteId].status = "pending"
        /\ Len(notes[q.noteId].attempts) >= MaxAttempts

IsPrefix(s, t) == Len(s) <= Len(t) /\ SubSeq(t, 1, Len(s)) = s

\* C30: the attempts list of a note is append-only: every step leaves it as it
\* was or extends it at the end, also when two jobs write for one note.
C30_AttemptsAppendOnly ==
    [][\A n \in Created : IsPrefix(notes[n].attempts, notes'[n].attempts)]_vars

\* Two jobs were in flight for a note on an accepting endpoint and both wrote
\* their result.
C30_Witness ==
    \E n \in Created : notes[n].webhookUrl = "ok" /\ Len(notes[n].attempts) = 2

\* ------------------------------------------------- the create-time job alone
\* Endpoints, with one that answers 304 Not Modified (a 3xx that axios hands
\* over as a response).
SoloUrls == Urls \cup {"quiet"}
SoloResponses == UNION {Answers(u) : u \in SoloUrls}

\* A note and its create-time job in the seconds before the first sweep, with
\* no replay request, and with a store that may reject the catch block's write.
SoloNext ==
    \/ Tick
    \/ \E n \in NoteIds, r \in Times, u \in SoloUrls : CreateNoteSave(n, r, u)
    \/ \E n \in NoteIds : CreateNoteEnqueue(n)
    \/ \E n \in NoteIds : CreateNoteEnqueueFails(n)
    \/ \E j \in AllJobs : StartAttempt(j)
    \/ \E j \in AllJobs, c \in SoloResponses : RespondOk(j, c)
    \/ \E j \in AllJobs, c \in SoloResponses : RespondHttpError(j, c)
    \/ \E j \in AllJobs, r \in SoloResponses : RespondThrows(j, r)
    \/ \E j \in AllJobs : CatchRead(j)
    \/ \E j \in AllJobs : CatchRecord(j)
    \/ \E j \in AllJobs : CatchRecordFails(j)

SoloSpec == Init /\ [][SoloNext]_vars

\* C26: in every Attempt record ok is TRUE exactly for a 2xx status, and the
\* error field is present exactly when ok is FALSE, also for a status that is
\* neither 2xx nor 400 or more.
C26_ErrorIffNotOk ==
    \A n \in Created : \A i \in 1..Len(notes[n].attempts) :
        /\ notes[n].attempts[i].ok <=> IsOk(notes[n].attempts[i].statusCode)
        /\ (notes[n].attempts[i].error # "none") <=> ~notes[n].attempts[i].ok

\* C29: when an attempt starts for a note, every earlier attempt for it has
\* its record in the note's attempts.
C29_RecordedBeforeNextAttempt ==
    [][\A n \in Created :
          posts'[n] > posts[n] => Len(notes[n].attempts) >= posts[n]]_vars

\* ================================================================== the sink
\* POST /sink requests carry the two headers, or lack one of them.
Missing == "missing"
SinkHeaders == [key : SinkKeys \cup {Missing}, noteId : {"a1", Missing}]

SinkAnswer(key, status, duplicate) ==
    [key |-> key, status |-> status, duplicate |-> duplicate]

\* The work that is left to the far side of every bounded history.
SinkVarsUnchanged ==
    UNCHANGED <<now, notes, creating, replaying, jobs, posts, cyclePosts, replayed,
                replayReply, sent, keyArgs, keys, request, worker>>

\* if (!idempotencyKey) ... 400; if (!noteId) ... 400
SinkMissingHeader(h) ==
    /\ h.key = Missing \/ h.noteId = Missing
    /\ sink' = [sink EXCEPT !.last = SinkAnswer(h.key, 400, FALSE)]
    /\ SinkVarsUnchanged

\* if (shouldFail) ... 500: the constant read from the environment at start-up
SinkSimulatedFailure(h) ==
    /\ h.key # Missing /\ h.noteId # Missing
    /\ sink.shouldFail
    /\ sink.received[h.key] < MaxSinkRequests
    /\ sink' = [sink EXCEPT !.received[h.key] = @ + 1,
                            !.last = SinkAnswer(h.key, 500, FALSE)]
    /\ SinkVarsUnchanged

StoredKeys == {e.key : e \in sink.store}

\* redis.setnx(key, '1'): 1 when the key was absent (it is set, with no expiry),
\* 0 when it was there.
Setnx(key, stored) == key \notin stored

\* const wasSet = await redis.setnx(key, '1'); a key that was there: the
\* request is answered 200 {duplicate: true}.
SinkSetnx(h) ==
    /\ h.key # Missing /\ h.noteId # Missing
    /\ ~sink.shouldFail
    /\ sink.received[h.key] < MaxSinkRequests
    /\ IF Setnx(h.key, StoredKeys)
       THEN sink' = [sink EXCEPT
                        !.received[h.key] = @ + 1,
                        !.store = {e \in @ : e.key # h.key} \cup {[key |-> h.key, ttl |-> FALSE]},
                        !.handlers = @ \cup {h.key}]
       ELSE sink' = [sink EXCEPT !.received[h.key] = @ + 1,
                                 !.last = SinkAnswer(h.key, 200, TRUE)]
    /\ SinkVarsUnchanged

\* await redis.expire(key, 86400); the webhook is logged as received and
\* processed; 200.
SinkExpire(k) ==
    /\ k \in sink.handlers
    /\ sink' = [sink EXCEPT
                   !.store = {e \in @ : e.key # k} \cup {[key |-> k, ttl |-> TRUE]},
                   !.handlers = @ \ {k},
                   !.processed[k] = @ + 1,
                   !.last = SinkAnswer(k, 200, FALSE)]
    /\ SinkVarsUnchanged

\* redis.expire rejects: the catch block answers 500; the key stays set.
SinkExpireFails(k) ==
    /\ k \in sink.handlers
    /\ sink' = [sink EXCEPT !.handlers = @ \ {k},
                            !.last = SinkAnswer(k, 500, FALSE)]
    /\ SinkVarsUnchanged

\* Redis drops a key 86400 s after its expiry was set.
KeyExpires(k) ==
    /\ [key |-> k, ttl |-> TRUE] \in sink.store
    /\ sink' = [sink EXCEPT !.store = @ \ {[key |-> k, ttl |-> TRUE]}]
    /\ SinkVarsUnchanged

\* The sink is started with or without SINK_SIMULATE_FAILURE=true.
SinkInit ==
    /\ now = 0
    /\ notes = << >>
    /\ creating = {}
    /\ replaying = EmptyBag
    /\ jobs = EmptyBag
    /\ posts = [n \in NoteIds |-> 0]
    /\ cyclePosts = [n \in NoteIds |-> 0]
    /\ replayed = [n \in NoteIds |-> 0]
    /\ replayReply = NoReply
    /\ sent = {}
    /\ keyArgs = << >>
    /\ keys = << >>
    /\ sink \in {SinkStart(f) : f \in BOOLEAN}
    /\ request = NoRequest
    /\ worker = Started

SinkNext ==
    \/ \E h \in SinkHeaders : SinkMissingHeader(h)
    \/ \E h \in SinkHeaders : SinkSimulatedFailure(h)
    \/ \E h \in SinkHeaders : SinkSetnx(h)
    \/ \E k \in SinkKeys : SinkExpire(k)
    \/ \E k \in SinkKeys : SinkExpireFails(k)
    \/ \E k \in SinkKeys : KeyExpires(k)

SinkSpec == SinkInit /\ [][SinkNext]_vars

\* C21: for every idempotency key, however many requests carry it, the sink
\* processes at most one of them as new.
C21_ProcessedOncePerKey == \A k \in SinkKeys : sink.processed[k] <= 1

\* ============================================================ the API's front
\* A request passes server.js's routing and, under /api/notes, authMiddleware
\* before its handler runs.  request holds the request in flight and
\* process.env.ADMIN_TOKEN (<< >> when it is unset or empty: both are falsy).
MaxTitle == 200
MaxBody == 5000

Bearer == <<"B", "e", "a", "r", "e", "r", " ">>

StartsWith(text, prefix) ==
    Len(text) >= Len(prefix) /\ SubSeq(text, 1, Len(prefix)) = prefix

\* Mutant of Authorize: the token is not compared.
AuthorizeAnyToken(authHeader, expectedToken) ==
    IF authHeader = << >> \/ ~StartsWith(authHeader, Bearer) THEN 401
    ELSE IF expectedToken = << >> THEN 500
    ELSE 0

\* authMiddleware: the status it answers, or 0 when it calls next().
Authorize(authHeader, expectedToken) ==
    IF authHeader = << >> \/ ~StartsWith(authHeader, Bearer) THEN 401
    ELSE LET token == SubSeq(authHeader, Len(Bearer) + 1, Len(authHeader)) IN
         IF expectedToken = << >> THEN 500
         ELSE IF token # expectedToken THEN 401
         ELSE 0

AdminTokens == {<< >>, <<"s">>}
AuthHeaders ==
    {<< >>, <<"s">>, Bearer, Bearer \o <<"s">>, Bearer \o <<"w">>,
     <<"b", "e", "a", "r", "e", "r", " ", "s">>, <<"B", "a", "s", "i", "c", " ", "s">>}

ApiRoutes == {"create", "list", "replay"}

\* ----------------------------------------------------- the create payload
Fields == {"title", "body", "releaseAt", "webhookUrl"}
Long(n) == [i \in 1..n |-> "x"]
Titles == {<< >>, <<" ">>, <<" ", "t">>, <<"t">>, Long(MaxTitle + 1)}
Bodies == {<< >>, <<"b">>, Long(MaxBody + 1)}
ReleaseAtTexts == {<< >>, <<"s", "o", "o", "n">>, <<"0", "0", ":", "0", "0">>, toISOString(0)}
\* A URL is its scheme and then its host.
Schemes == {"http://", "https://", "ftp://"}
UrlTexts == {<< >>, <<"/", "ok">>, <<"http://">>, <<"ftp://", "ok">>, <<"http://", "ok">>,
             <<"https://", "down">>}
FullBodies == [title : Titles, body : Bodies, releaseAt : ReleaseAtTexts, webhookUrl : UrlTexts]
\* req.body: all four fields, or all but one.
Bodies4 == {[f \in Fields \ drop |-> full[f]] :
               full \in FullBodies, drop \in {{}} \cup {{f} : f \in Fields}}

RECURSIVE TrimStart(_)
TrimStart(text) ==
    IF text # << >> /\ Head(text) = " " THEN TrimStart(Tail(text)) ELSE text

RECURSIVE TrimEnd(_)
TrimEnd(text) ==
    IF text # << >> /\ text[Len(text)] = " " THEN TrimEnd(SubSeq(text, 1, Len(text) - 1))
    ELSE text

Trim(text) == TrimEnd(TrimStart(text))

Digits == {ToString(d) : d \in 0..9}

\* z.string().datetime(): the text toISOString() writes, ending in Z.
IsDatetime(text) ==
    /\ Len(text) = 6
    /\ SubSeq(text, 1, 4) = <<"0", "0", ":", "0">>
    /\ text[5] \in Digits
    /\ text[6] = "Z"

\* new Date(text): Null stands for an Invalid Date.
DateOf(text) ==
    IF IsDatetime(text) THEN CHOOSE t \in 0..9 : ToString(t) = text[5] ELSE Null

\* z.string().url(): new URL(text) does not throw.
IsUrl(text) == Len(text) >= 2 /\ text[1] \in Schemes

\* .refine(url => url.startsWith('http://') || url.startsWith('https://'))
IsHttp(text) == text # << >> /\ text[1] \in {"http://", "https://"}

\* createNoteSchema.parse(req.body): the paths of the issues it raises.  The
\* checks of a string run in the order written: min and max see the text
\* before trim() does.
createNoteSchema(body) ==
    {f \in Fields : f \notin DOMAIN body}
    \cup {f \in {"title"} \cap DOMAIN body : Len(body[f]) < 1 \/ Len(body[f]) > MaxTitle}
    \cup {f \in {"body"} \cap DOMAIN body : Len(body[f]) < 1 \/ Len(body[f]) > MaxBody}
    \cup {f \in {"releaseAt"} \cap DOMAIN body : ~IsDatetime(body[f])}
    \cup {f \in {"webhookUrl"} \cap DOMAIN body : ~IsUrl(body[f]) \/ ~IsHttp(body[f])}

Field(body, f) == IF f \in DOMAIN body THEN body[f] ELSE << >>

\* new Note({...validatedData}): the document note.save() validates.
NoteDocument(body) ==
    [title |-> Trim(Trim(Field(body, "title"))),
     body |-> Trim(Trim(Field(body, "body"))),
     releaseAt |-> DateOf(Field(body, "releaseAt")),
     webhookUrl |-> Trim(Field(body, "webhookUrl"))]

\* noteSchema: required, maxlength, match /^https?:\/\/.+/
noteSchema(doc) ==
    /\ doc.title # << >> /\ Len(doc.title) <= MaxTitle
    /\ doc.body # << >> /\ Len(doc.body) <= MaxBody
    /\ doc.releaseAt # Null
    /\ IsHttp(doc.webhookUrl) /\ Len(doc.webhookUrl) >= 2

\* Mutant of CreateError: the handler goes on whatever the payload is.
CreateErrorNone(body) == 0

\* The status the create handler's catch answers: 400 for a ZodError, 500 for
\* the ValidationError of note.save(); 0 when neither is thrown.
CreateError(body) ==
    IF createNoteSchema(body) # {} THEN 400
    ELSE IF ~noteSchema(NoteDocument(body)) THEN 500
    ELSE 0

HostOf(text) == IF Len(text) >= 2 THEN text[2] ELSE "none"

FrontUnchanged ==
    UNCHANGED <<now, notes, creating, replaying, jobs, posts, cyclePosts, replayed,
                replayReply, sent, keyArgs, keys, sink, worker>>

Answer(status) == [request EXCEPT !.stage = "done", !.status = status]

\* A request arrives.
Receive(route, authHeader, body, id) ==
    /\ request.stage = "none"
    /\ request' = [request EXCEPT !.route = route, !.stage = "received",
                                  !.authorization = authHeader, !.body = body, !.id = id]
    /\ FrontUnchanged

\* app.get('/health'): res.json({ok: true})
ServeHealth ==
    /\ request.stage = "received" /\ request.route = "health"
    /\ request' = Answer(200)
    /\ FrontUnchanged

\* app.use('*'): 404
RouteNotFound ==
    /\ request.stage = "received" /\ request.route = "other"
    /\ request' = Answer(404)
    /\ FrontUnchanged

\* app.use('/api/notes', authMiddleware, notesRouter)
AuthMiddleware ==
    /\ request.stage = "received" /\ request.route \in ApiRoutes
    /\ LET status == Authorize(request.authorization, request.adminToken) IN
       request' = IF status = 0 THEN [request EXCEPT !.stage = "handler"] ELSE Answer(status)
    /\ FrontUnchanged

InHandler(route) == request.stage = "handler" /\ request.route = route

\* router.post('/'): parse throws or note.save() throws, and the catch answers.
PostNotesRejected ==
    /\ InHandler("create")
    /\ CreateError(request.body) # 0
    /\ request' = Answer(CreateError(request.body))
    /\ FrontUnchanged

\* router.post('/') up to `await note.save()`; the handler goes on with the
\* queue (CreateNoteEnqueue, CreateNoteEnqueueFails).
PostNotesSave(n) ==
    /\ InHandler("create")
    /\ CreateError(request.body) = 0
    /\ n \notin Created
    /\ LET doc == NoteDocument(request.body) IN
       notes' = notes @@ (n :> NewNote(doc.releaseAt, HostOf(doc.webhookUrl)))
    /\ creating' = creating \cup {n}
    /\ request' = [request EXCEPT !.stage = "saved"]
    /\ UNCHANGED <<now, replaying, jobs, posts, cyclePosts, replayed, replayReply, sent,
                   keyArgs, keys, sink, worker>>

\* router.get('/'): the notes are read and listed.
GetNotes ==
    /\ InHandler("list")
    /\ request' = Answer(200)
    /\ FrontUnchanged

\* router.post('/:id/replay'): the handler's first step on req.params.id.
PostReplay ==
    /\ InHandler("replay")
    /\ replayReply = NoReply /\ replaying = EmptyBag
    /\ \/ ReplayInvalidId(request.id)
       \/ ReplayNotFound(request.id)
       \/ ReplayRejected(request.id)
       \/ ReplayRead(request.id)

\* The response is out; the process takes the next request.
NextRequest ==
    /\ \/ request.stage = "done"
       \/ request.stage = "saved" /\ creating = {}
       \/ InHandler("replay") /\ replayReply # NoReply
    /\ request' = Idle(request.adminToken)
    /\ replayReply' = NoReply
    /\ UNCHANGED <<now, notes, creating, replaying, jobs, posts, cyclePosts, replayed,
                   sent, keyArgs, keys, sink, worker>>

\* The API process alone, started with or without ADMIN_TOKEN, on an empty
\* store or on one that holds a dead note.
FrontInit ==
    /\ now = 0
    /\ \/ notes = << >>
       \/ \E n \in NoteIds : notes = (n :> DeadNote("down"))
    /\ creating = {}
    /\ replaying = EmptyBag
    /\ jobs = EmptyBag
    /\ posts = [n \in NoteIds |-> 0]
    /\ cyclePosts = [n \in NoteIds |-> 0]
    /\ replayed = [n \in NoteIds |-> 0]
    /\ replayReply = NoReply
    /\ sent = {}
    /\ keyArgs = << >>
    /\ keys = << >>
    /\ sink = SinkStart(FALSE)
    /\ request \in {Idle(t) : t \in AdminTokens}
    /\ worker = Started

FrontNext ==
    \/ \E h \in AuthHeaders :
          \/ \E route \in {"health", "other", "list"} : Receive(route, h, << >>, "none")
          \/ \E body \in Bodies4 : Receive("create", h, body, "none")
          \/ \E id \in RequestIds : Receive("replay", h, << >>, id)
    \/ ServeHealth
    \/ RouteNotFound
    \/ AuthMiddleware
    \/ PostNotesRejected
    \/ \E n \in NoteIds : PostNotesSave(n)
    \/ \E n \in NoteIds : CreateNoteEnqueue(n)
    \/ \E n \in NoteIds : CreateNoteEnqueueFails(n)
    \/ GetNotes
    \/ PostReplay
    \/ \E q \in BagToSet(replaying) : ReplaySave(q)
    \/ \E q \in BagToSet(replaying) : ReplayEnqueue(q)
    \/ NextRequest

FrontSpec == FrontInit /\ [][FrontNext]_vars

\* The request in flight carries 'Bearer <token>' with the token ADMIN_TOKEN holds.
HasAdminToken ==
    /\ request.adminToken # << >>
    /\ request.authorization = Bearer \o request.adminToken

\* C22: a request to a route under /api/notes without 'Bearer <ADMIN_TOKEN>'
\* never reaches its handler: it is answered 401 or 500, and no note is
\* created or modified, no job is enqueued and no replay is answered; a request
\* without the token is served only on GET /health.
C22_NoHandlerWithoutToken ==
    [][/\ (request.route \in ApiRoutes /\ ~HasAdminToken)
          => /\ UNCHANGED <<notes, creating, replaying, jobs, replayReply>>
             /\ request'.stage \in {"received", "done", "none"}
             /\ request'.stage = "done" => request'.status \in {401, 500}
       /\ (request.stage = "received" /\ request'.stage = "done" /\ request'.status < 400
           /\ ~HasAdminToken)
          => request.route = "health"]_vars

\* A well-formed create request with a wrong token was answered 401.
C22_Witness ==
    /\ request.route = "create" /\ request.stage = "done" /\ request.status = 401
    /\ request.authorization = Bearer \o <<"w">>
    /\ request.adminToken = <<"s">>
    /\ CreateError(request.body) = 0
    /\ notes = << >> /\ jobs = EmptyBag

\* The payloads the create route is to refuse: a missing or empty field, a
\* releaseAt that is no ISO-8601 datetime, a webhookUrl that is no absolute
\* http(s) URL.
AbsoluteHttpUrl(text) == Len(text) = 2 /\ text[1] \in {"http://", "https://"}

FailsValidation(body) ==
    \/ \E f \in Fields : f \notin DOMAIN body \/ body[f] = << >>
    \/ body.releaseAt \notin {toISOString(t) : t \in 0..9}
    \/ ~AbsoluteHttpUrl(body.webhookUrl)

\* C23: the create handler answers a payload that fails validation with an
\* error status, and persists no note and enqueues no job.
C23_InvalidCreateRejected ==
    [][(InHandler("create") /\ FailsValidation(request.body) /\ request' # request)
       => /\ request'.stage = "done"
          /\ request'.status \in {400, 500}
          /\ UNCHANGED <<notes, creating, jobs>>]_vars

\* An authorised create request with a bad payload was answered 400, the store
\* still empty.
C23_Witness ==
    /\ request.route = "create" /\ request.stage = "done" /\ request.status = 400
    /\ HasAdminToken
    /\ FailsValidation(request.body)
    /\ "releaseAt" \in DOMAIN request.body /\ request.body.releaseAt = <<"s", "o", "o", "n">>
    /\ notes = << >> /\ jobs = EmptyBag

\* ------------------------------------------------------ status and attempts
\* C31: a note that is delivered, failed or dead has at least one Attempt
\* record; a note with no Attempt record is pending.
C31_AttemptsUnlessPending ==
    \A n \in Created :
        /\ notes[n].status \in {"delivered", "failed", "dead"} => notes[n].attempts # << >>
        /\ notes[n].attempts = << >> => notes[n].status = "pending"

\* Notes in each of the three statuses exist along the way: here a dead one
\* whose endpoint never answered.
C31_Witness ==
    \E n \in Created :
        /\ notes[n].status = "dead"
        /\ notes[n].webhookUrl = "down"
        /\ Len(notes[n].attempts) >= MaxAttempts

\* ------------------------------------------------------- recovery of a note
\* The system left to itself, with a store that may refuse the catch block's
\* write.  The write failing is the environment's doing and has no fairness
\* condition of its own.
RecoverNext ==
    \/ Unattended
    \/ \E j \in AllJobs : CatchRecordFails(j)

RecoverSpec == Init /\ [][RecoverNext]_vars /\ Fairness

DueNote(n) == n \in Created /\ notes[n].releaseAt <= now

\* The note has reached delivered or dead (or the history is at its bound).
Concluded(n) ==
    n \in Created /\ (notes[n].status \in {"delivered", "dead"} \/ posts[n] >= MaxPosts)

\* C32: with no replay request and under fair scheduling, every due note
\* eventually reaches delivered or dead, also when a result write fails.
C32_DueNoteEventuallyConcluded ==
    \A n \in NoteIds : DueNote(n) ~> Concluded(n)

\* ---------------------------------------------------------- the worker pool
\* More due jobs than the worker has slots: PoolSize notes, all due, each with
\* its job in the queue.  The first note's endpoint never answers (each of its
\* attempts lasts until the 30 s timeout), the others answer 200.
PoolIds == {"p" \o ToString(i) : i \in 1..PoolSize}

PoolUrl(n) == IF n = "p1" THEN "down" ELSE "ok"

PoolInit ==
    /\ now = 0
    /\ notes = [n \in PoolIds |-> NewNote(0, PoolUrl(n))]
    /\ creating = {}
    /\ replaying = EmptyBag
    /\ jobs = SetToBag({NewJob(n, 0) : n \in PoolIds})
    /\ posts = [n \in PoolIds |-> 0]
    /\ cyclePosts = [n \in PoolIds |-> 0]
    /\ replayed = [n \in PoolIds |-> 0]
    /\ replayReply = NoReply
    /\ sent = {}
    /\ keyArgs = << >>
    /\ keys = << >>
    /\ sink = SinkStart(FALSE)
    /\ request = NoRequest
    /\ worker = Started

PoolNext ==
    \/ \E j \in AllJobs : StartAttempt(j)
    \/ \E j \in AllJobs : RespondOk(j, 200)
    \/ \E j \in AllJobs : RespondThrows(j, NoResponse)
    \/ \E j \in AllJobs : CatchRecord(j)

PoolSpec == PoolInit /\ [][PoolNext]_vars

\* A job is waiting: due, its note not delivered.
Waiting(j) ==
    /\ j.pc = "queued" /\ j.runAt <= now
    /\ notes[j.noteId].status # "delivered"
    /\ posts[j.noteId] < MaxPosts

\* C33: at most 5 attempts are in flight; a job starts only into a free slot;
\* and with fewer than 5 in flight every waiting job can start, whatever the
\* other attempts are waiting for.
C33_AtMostFiveInFlight ==
    /\ NumActive <= 5
    /\ \A j \in BagToSet(jobs) : (Waiting(j) /\ NumActive < 5) => ENABLED StartAttempt(j)
    /\ \A j \in BagToSet(jobs) : (Waiting(j) /\ NumActive >= 5) => ~ENABLED StartAttempt(j)

\* Five attempts in flight, the slow one among them, and a sixth job waiting.
C33_Witness ==
    /\ NumActive = 5
    /\ \E j \in BagToSet(jobs) : j.noteId = "p1" /\ j.pc = "posted"
    /\ \E j \in BagToSet(jobs) : Waiting(j)

\* ------------------------------------------------------------------ backoff
\* The retries a step puts into the queue.
Retries(before, after) ==
    {k \in BagToSet(after) :
        k.pc = "queued" /\ k.attemptsMade > 0 /\ CopiesIn(k, after) > CopiesIn(k, before)}

\* C34: every retry waits: the delay before attempt 2 is greater than zero, and
\* the delay before attempt 3 is greater than the one before attempt 2.
C34_RetryDelaysIncrease ==
    [][\A k \in Retries(jobs, jobs') :
          /\ k.runAt > now
          /\ BackoffDelay(BackoffOpts, 1) > 0
          /\ BackoffDelay(BackoffOpts, 2) > BackoffDelay(BackoffOpts, 1)]_vars

\* ================================================================== shutdown
RECURSIVE SumOver(_, _)
SumOver(f, S) ==
    IF S = {} THEN 0
    ELSE LET x == CHOOSE y \in S : TRUE IN f[x] + SumOver(f, S \ {x})

\* The Attempt records in the store.
TotalRecords == SumOver([n \in Created |-> Len(notes[n].attempts)], Created)

ShutdownUnchanged ==
    UNCHANGED <<now, notes, creating, replaying, jobs, posts, cyclePosts, replayed,
                replayReply, sent, keyArgs, keys, sink, request>>

\* process.on('SIGINT'): clearInterval(pollInterval), then worker.close() is
\* called: the Worker takes no further job.
Sigint ==
    /\ ~worker.closing
    /\ worker' = [worker EXCEPT !.polling = FALSE, !.closing = TRUE,
                                !.atSigint = NumActive, !.records = TotalRecords]
    /\ ShutdownUnchanged

\* Mutant of Drained: the Worker is closed by force, whatever is running.
DrainedByForce == TRUE

\* await worker.close(): resolves when no processor call is running.
Drained == NumActive = 0

\* redis.quit(), mongoose.connection.close(), process.exit(0)
Exit ==
    /\ worker.closing /\ ~worker.exited
    /\ Drained
    /\ worker' = [worker EXCEPT !.exited = TRUE]
    /\ ShutdownUnchanged

\* The worker process from start to exit, and the API process beside it.
ShutdownNext ==
    \/ Tick
    \/ \E n \in NoteIds, r \in Times, u \in Urls : CreateNoteSave(n, r, u)
    \/ \E n \in NoteIds : CreateNoteEnqueue(n)
    \/ \E n \in NoteIds : CreateNoteEnqueueFails(n)
    \/ worker.polling /\ pollForDueNotes
    \/ ~worker.closing /\ \E j \in AllJobs : SkipDelivered(j)
    \/ ~worker.closing /\ \E j \in AllJobs : StartAttempt(j)
    \/ ~worker.exited /\ \E j \in AllJobs, c \in Responses : RespondOk(j, c)
    \/ ~worker.exited /\ \E j \in AllJobs, c \in Responses : RespondHttpError(j, c)
    \/ ~worker.exited /\ \E j \in AllJobs, r \in Responses : RespondThrows(j, r)
    \/ ~worker.exited /\ \E j \in AllJobs : CatchRead(j)
    \/ ~worker.exited /\ \E j \in AllJobs : CatchRecord(j)
    \/ Sigint
    \/ Exit

ShutdownSpec == Init /\ [][ShutdownNext]_vars

\* A step of a sweep: jobs come into the queue, and no API handler put them.
SweepStep ==
    /\ BagCardinality(jobs') > BagCardinality(jobs)
    /\ creating' = creating /\ replaying' = replaying

\* C35: on SIGINT polling stops as the close begins; from then on no sweep and
\* no attempt starts; the process closes its connections and exits only when
\* no attempt is in flight, each attempt that was in flight at SIGINT having
\* stored its record.
C35_GracefulShutdown ==
    [][/\ (worker'.closing /\ ~worker.closing) => ~worker'.polling
       /\ SweepStep => (worker.polling /\ ~worker.closing)
       /\ posts' # posts => ~worker.closing
       /\ (worker'.exited /\ ~worker.exited)
          => /\ worker.closing /\ ~worker.polling
             /\ NumActive = 0
             /\ TotalRecords >= worker.records + worker.atSigint]_vars

\* The process has exited after a SIGINT that found two attempts in flight.
C35_Witness ==
    /\ worker.exited
    /\ worker.atSigint = 2
    /\ TotalRecords >= worker.records + 2

\* ============================================================ errors at work
\* What becomes of an error in the worker process, by where it is raised: the
\* sweep's own try/catch, BullMQ's 'failed' and 'error' events, and the two
\* process-level handlers.
ErrorOrigins == {"sweep", "failed", "error", "unhandledRejection", "uncaughtException"}

\* Mutant of ErrorOutcome: an error ends the process wherever it is raised.
ErrorOutcomeExit(origin) == "exit"

ErrorOutcome(origin) ==
    IF origin = "uncaughtException" THEN "exit" ELSE "logged"

\* Note.find() or queue.addBulk() rejects during a sweep: the catch block of
\* pollForDueNotes logs it.
PollFails ==
    /\ worker.polling /\ ~worker.exited
    /\ worker.pollErrors < MaxPollErrors
    /\ worker' = IF ErrorOutcome("sweep") = "exit"
                 THEN [worker EXCEPT !.exited = TRUE, !.polling = FALSE]
                 ELSE [worker EXCEPT !.pollErrors = @ + 1]
    /\ ShutdownUnchanged

\* Two notes put into the store with no job (as the seed script does), both
\* due: the first one's endpoint fails every request, the second's answers 200.
SteadyIds == {"p1", "p2"}
SteadyUrls == {"rejecting", "flaky", "down"}

SteadyInit ==
    /\ now = 0
    /\ \E u \in SteadyUrls : notes = ("p1" :> NewNote(0, u)) @@ ("p2" :> NewNote(0, "ok"))
    /\ creating = {}
    /\ replaying = EmptyBag
    /\ jobs = EmptyBag
    /\ posts = [n \in SteadyIds |-> 0]
    /\ cyclePosts = [n \in SteadyIds |-> 0]
    /\ replayed = [n \in SteadyIds |-> 0]
    /\ replayReply = NoReply
    /\ sent = {}
    /\ keyArgs = << >>
    /\ keys = << >>
    /\ sink = SinkStart(FALSE)
    /\ request = NoRequest
    /\ worker = Started

Running == worker.polling /\ ~worker.closing /\ ~worker.exited

SteadyNext ==
    \/ worker.polling /\ pollForDueNotes
    \/ PollFails
    \/ Running /\ \E j \in AllJobs : SkipDelivered(j)
    \/ Running /\ \E j \in AllJobs : StartAttempt(j)
    \/ ~worker.exited /\ \E j \in AllJobs, c \in Responses : RespondOk(j, c)
    \/ ~worker.exited /\ \E j \in AllJobs, c \in Responses : RespondHttpError(j, c)
    \/ ~worker.exited /\ \E j \in AllJobs, r \in Responses : RespondThrows(j, r)
    \/ ~worker.exited /\ \E j \in AllJobs : CatchRead(j)
    \/ ~worker.exited /\ \E j \in AllJobs : CatchRecord(j)
    \/ ~worker.exited /\ \E j \in AllJobs : CatchRecordFails(j)

SteadySpec == SteadyInit /\ [][SteadyNext]_vars

\* C36: failed attempts and a failed sweep leave the worker at work: it has not
\* exited and its poll timer is set; a sweep can run whenever notes are due (and
\* the queue has room), and every waiting job can be attempted while a slot
\* is free.
C36_WorkerSurvivesErrors ==
    /\ Running
    /\ (DueNotes # {} /\ BagCardinality(jobs) + Cardinality(DueNotes) <= MaxJobs)
       => ENABLED (worker.polling /\ pollForDueNotes)
    /\ \A j \in BagToSet(jobs) :
          (Waiting(j) /\ NumActive < Concurrency) => ENABLED (Running /\ StartAttempt(j))

\* After a failed sweep and three failed attempts on the first note, the
\* second note was delivered.
C36_Witness ==
    /\ worker.pollErrors > 0
    /\ notes["p1"].status = "dead"
    /\ notes["p2"].status = "delivered"
    /\ posts["p2"] = 1

\* ------------------------------------------------ the retry budget of a replay
\* C37: after the one accepted replay of a dead note whose endpoint keeps
\* failing, once nothing is left to run the note is dead again, 3 further POSTs
\* were made and the attempts list is the earlier list with exactly 3 entries
\* after it.
C37_ReplayGivesThreeAttempts ==
    \A n \in Created :
        (/\ replayed[n] = 1
         /\ replaying = EmptyBag
         /\ Settled(n)
         /\ posts[n] > 0
         /\ \A i \in 1..Len(NewAttempts(n)) : ~NewAttempts(n)[i].ok)
        => /\ notes[n].status = "dead"
           /\ posts[n] = MaxAttempts
           /\ Len(NewAttempts(n)) = MaxAttempts
           /\ IsPrefix(DeadAttempts(notes[n].webhookUrl), notes[n].attempts)

\* ------------------------------------------------- an acknowledged delivery
\* The message of the error note.save() rejects with.
SaveError == "store unreachable"

\* A 2xx answer whose `await note.save()` rejects: nothing is stored, and the
\* error is thrown inside the try block, into the catch block, which loads the
\* note and records the error as a failed attempt.
RespondOkSaveFails(j, code) ==
    /\ j \in BagToSet(jobs)
    /\ j.pc = "posted"
    /\ code \in Answers(notes[j.noteId].webhookUrl)
    /\ code # NoResponse /\ ValidateStatus(code) /\ IsOk(code)
    /\ jobs' = Replace(j, [j EXCEPT !.pc = "record", !.loaded = notes[j.noteId].status,
                                    !.error = SaveError])
    /\ UNCHANGED <<now, notes, creating, replaying, posts, cyclePosts, replayed, replayReply,
                   sent, apart>>

\* One job per note, with a store that may refuse a write.
AckNext ==
    \/ SoloNext
    \/ \E j \in AllJobs, c \in SoloResponses : RespondOkSaveFails(j, c)

AckSpec == Init /\ [][AckNext]_vars

\* Some attempt for note n was answered 2xx: its record is stored with
\* ok = TRUE, or its save was refused.
Acknowledged(n) ==
    \/ \E i \in 1..Len(notes[n].attempts) :
          notes[n].attempts[i].ok \/ notes[n].attempts[i].error = SaveError
    \/ \E j \in JobsOf(n) : j.error = SaveError

\* C38: a note one of whose attempts was answered 2xx is never in status
\* failed or dead afterwards.
C38_AcknowledgedNeverFailed ==
    \A n \in Created : Acknowledged(n) => notes[n].status \notin {"failed", "dead"}

\* ----------------------------------------------------- POST /toggle-failure
\* process.env.SINK_SIMULATE_FAILURE is flipped and its new value reported;
\* shouldFail, the constant the /sink handler reads, was set at start-up.
ToggleFailure ==
    /\ sink' = [sink EXCEPT !.simulateFailure = ~@,
                            !.reported = IF sink.simulateFailure THEN "false" ELSE "true"]
    /\ SinkVarsUnchanged

ToggleNext ==
    \/ SinkNext
    \/ ToggleFailure

ToggleSpec == SinkInit /\ [][ToggleNext]_vars

\* A POST /sink with both headers is taken up for key k.
SinkTakes(k) == sink'.received[k] > sink.received[k]

\* The request taken up is answered 500 'Simulated failure'.
SimulatedFailureStep(k) ==
    /\ sink'.last = SinkAnswer(k, 500, FALSE)
    /\ sink'.store = sink.store /\ sink'.handlers = sink.handlers

\* C39: after /toggle-failure has reported simulateFailure true, every POST
\* /sink with valid headers is answered 500; after it has reported false, none
\* is.
C39_ToggleTakesEffect ==
    [][\A k \in SinkKeys :
          SinkTakes(k)
          => /\ sink.reported = "true" => SimulatedFailureStep(k)
             /\ sink.reported = "false" => ~SimulatedFailureStep(k)]_vars

\* ------------------------------------------------- what a refused request leaves
\* The handler that took up key k answers in this step.
SinkAnswers(k) ==
    \/ SinkTakes(k) /\ sink'.handlers = sink.handlers
    \/ k \in sink.handlers /\ k \notin sink'.handlers

\* C40: a request refused with 400 or with the simulated 500 leaves the
\* idempotency store as it was, and every request answered with a status that
\* is not 2xx leaves its key out of the store.
C40_RefusedLeavesKeyUnrecorded ==
    [][/\ (sink'.last # sink.last /\ sink'.last.status = 400) => sink'.store = sink.store
       /\ \A k \in SinkKeys :
             (SinkAnswers(k) /\ ~IsOk(sink'.last.status))
             => /\ SinkTakes(k) => sink'.store = sink.store
                /\ [key |-> k, ttl |-> FALSE] \notin sink'.store
                /\ [key |-> k, ttl |-> TRUE] \notin sink'.store]_vars

==========================================================================
